---- MODULE Spec2Model ----
(***************************************************************************)
(* DynamicPricingModel (src/src/ai_model.py): the lifecycle of the trained *)
(* artifact (model, scaler, is_trained) of the instances that share one    *)
(* model_path, and the file at that path.                                  *)
(*                                                                         *)
(* Arrays are kept by their shape and by the rows that hold a non-finite   *)
(* value: that is all the control flow of train/predict depends on.        *)
(* Estimator objects are kept by their class, the train() call that        *)
(* constructed them (run) and n_features_in_ (0 while unfitted).           *)
(***************************************************************************)
EXTENDS Integers, Sequences, FiniteSets, TLC

\* ----------------------------------------------------------------- bounds
MaxRows == 2
MaxRuns == 2

\* ------------------------------------------------------ program constants
NFeatures == 6
DefaultSamples == 10000

Instances == {"A", "B"}

\* A path is its sequence of components.
Paths == { <<"models", "pricing_model.pkl">>, <<"test_model.pkl">> }

VARIABLES
    model_path,   \* the path both instances were constructed with
    model,        \* self.model, per instance
    scaler,       \* self.scaler, per instance
    is_trained,   \* self.is_trained, per instance
    file,         \* what is stored at model_path
    runs,         \* how many train() calls have constructed estimators
    succeeded,    \* per instance: some train() returned metrics or some load_model() returned True
    ret,          \* the last call: [op, self, raised, value]
    train_X,      \* the feature rows given to train(), by value
    train_y,      \* the targets given to train(), by value
    learned,      \* what that train() call fitted: scaling parameters and importances
    records,      \* the DataFrame object the caller passes to the pipeline
    returned,     \* what the last pipeline call returned
    log,          \* the log events of the last pipeline call
    clock,        \* datetime.now()
    rng,          \* the state of numpy's global random generator
    first,        \* what the first generate_sample_data call returned
    data_lake,    \* self.data_lake of the DataPipeline instance
    processed_records,  \* self.processed_records
    ingested,     \* the records of all frames passed to ingest_data so far
    calls,        \* how many ingest_data and run_pipeline calls were made
    upload        \* what the last upload_data call did

\* the state of the DynamicPricingModel instances and of the file at model_path
modelVars == <<model_path, model, scaler, is_trained, file, runs, succeeded, ret>>

\* one train() call seen by value
fitVars == <<train_X, train_y, learned>>

\* the clock and the random generator the generators read
genVars == <<clock, rng, first>>

\* the DataPipeline instance and its data lake
lakeVars == <<data_lake, processed_records, ingested, calls, upload>>

\* one DataPipeline call
pipeVars == <<records, returned, log, genVars, lakeVars>>

vars == <<model_path, model, scaler, is_trained, file, runs, succeeded, ret,
          train_X, train_y, learned, records, returned, log,
          clock, rng, first, data_lake, processed_records, ingested, calls, upload>>

\* ----------------------------------------------------------- python values
None == [cls |-> "NoneType"]

IsNone(x) == x.cls = "NoneType"

\* StandardScaler() as constructed by train() call r
StandardScaler(r) == [cls |-> "StandardScaler", run |-> r, n_features_in_ |-> 0]

\* RandomForestRegressor(...) as constructed by train() call r
RandomForestRegressor(r) == [cls |-> "RandomForestRegressor", run |-> r, n_features_in_ |-> 0]

\* estimator e after a fit on X
Fitted(e, X) == [e EXCEPT !.n_features_in_ = X.cols]

IsFitted(e) == e.cls # "NoneType" /\ e.n_features_in_ > 0

ndarray2(n, c, bad) == [cls |-> "ndarray", rows |-> n, cols |-> c, bad |-> bad]

ndarray1(n, bad) == [cls |-> "ndarray", rows |-> n, bad |-> bad]

Dict(items) == [cls |-> "dict", items |-> items]

PyList == [cls |-> "list"]

\* ------------------------------------------------------------ input arrays
ColsSet == {NFeatures - 1, NFeatures}

\* the sets of rows holding a non-finite value: at most one row does
BadRows(n) == {{}} \cup { {i} : i \in 1..n }

FeatureArrays ==
    UNION { { ndarray2(n, c, bad) : c \in ColsSet, bad \in BadRows(n) } : n \in 0..MaxRows }

TargetArrays == UNION { { ndarray1(n, bad) : bad \in BadRows(n) } : n \in 0..MaxRows }

TrainFeatures == FeatureArrays \cup {None}

TrainTargets == TargetArrays \cup {None}

PredictBatches == FeatureArrays

\* ------------------------------------------------- generate_training_data
\* n_samples rows of six finite columns and n_samples finite targets
generate_training_data(n_samples) ==
    [features |-> ndarray2(n_samples, NFeatures, {}),
     targets  |-> ndarray1(n_samples, {})]

\* --------------------------------------------------------- sklearn calls
\* rows lo..hi of array a, renumbered from 1
TakeRows(a, lo, hi) ==
    [a EXCEPT !.rows = IF hi >= lo THEN hi - lo + 1 ELSE 0,
              !.bad  = { i - lo + 1 : i \in { j \in a.bad : j >= lo /\ j <= hi } }]

\* test_size=0.2: n_test = ceil(0.2 * n)
NTest(n) == (n + 4) \div 5

\* train_test_split(features, targets, test_size=0.2, random_state=42).
\* random_state fixes the shuffle as a function of the row count alone; the
\* permutation taken here puts the last n_test rows in the test split.
\* Raises on arrays of different lengths and on an empty training split.
train_test_split(features, targets) ==
    LET n      == features.rows
        n_test == NTest(n)
        n_train == n - n_test
    IN  IF features.rows # targets.rows \/ n = 0 \/ n_train = 0
        THEN [raised |-> TRUE]
        ELSE [raised  |-> FALSE,
              X_train |-> TakeRows(features, 1, n_train),
              X_test  |-> TakeRows(features, n_train + 1, n),
              y_train |-> TakeRows(targets, 1, n_train),
              y_test  |-> TakeRows(targets, n_train + 1, n)]

\* scaler.fit_transform(X) raises on a non-finite value
FitTransformRaises(X) == X.rows = 0 \/ X.bad # {}

\* s.transform(X) raises on a missing or unfitted scaler, on another column
\* count than it was fitted on, and on a non-finite value
TransformRaises(s, X) ==
    \/ s.cls # "StandardScaler"
    \/ ~IsFitted(s)
    \/ X.rows = 0
    \/ X.cols # s.n_features_in_
    \/ X.bad # {}

\* model.fit(X_scaled, y) raises on a non-finite target
FitRaises(y) == y.bad # {}

\* m.predict(X_scaled) raises on a missing or unfitted ensemble and on
\* another column count than it was fitted on
ModelPredictRaises(m, X) ==
    \/ m.cls # "RandomForestRegressor"
    \/ ~IsFitted(m)
    \/ X.cols # m.n_features_in_

\* mean_squared_error / r2_score raise on a non-finite y_test
MetricsRaise(y_test) == y_test.bad # {}

\* the price ensemble m returns for a row scaled by s
Price(m, s) == [ensemble |-> m.run, scaled_by |-> s.run]

\* ------------------------------------------------------------------ pickle
\* A pickle is a sequence of opcodes.
Tok(op) == [op |-> op]

Push(v) == [op |-> "PUSH", arg |-> v]

\* pickle.dump: a dict is written item by item, anything else as one push
RECURSIVE DumpItems(_)
DumpItems(items) ==
    IF items = <<>> THEN <<>>
    ELSE <<Push(Head(items)[1]), Push(Head(items)[2]), Tok("SETITEM")>>
             \o DumpItems(Tail(items))

pickle_dump(obj) ==
    IF obj.cls = "dict"
    THEN <<Tok("PROTO"), Tok("EMPTY_DICT")>> \o DumpItems(obj.items) \o <<Tok("STOP")>>
    ELSE <<Tok("PROTO"), Push(obj), Tok("STOP")>>

\* the opcodes of bytes between PROTO EMPTY_DICT and STOP are whole items
WholeItems(bytes) ==
    /\ (Len(bytes) - 3) % 3 = 0
    /\ \A k \in 1..((Len(bytes) - 3) \div 3) :
          /\ bytes[3 * k].op = "PUSH"
          /\ bytes[3 * k + 1].op = "PUSH"
          /\ bytes[3 * k + 2].op = "SETITEM"

\* pickle.load: raises on anything that is not a whole pickle
pickle_load(bytes) ==
    IF \/ Len(bytes) < 3
       \/ bytes[1].op # "PROTO"
       \/ bytes[Len(bytes)].op # "STOP"
    THEN [raised |-> TRUE]
    ELSE IF bytes[2].op = "EMPTY_DICT"
         THEN IF ~WholeItems(bytes)
              THEN [raised |-> TRUE]
              ELSE [raised |-> FALSE,
                    value  |-> Dict([k \in 1..((Len(bytes) - 3) \div 3) |->
                                       <<bytes[3 * k].arg, bytes[3 * k + 1].arg>>])]
         ELSE IF Len(bytes) = 3 /\ bytes[2].op = "PUSH"
              THEN [raised |-> FALSE, value |-> bytes[2].arg]
              ELSE [raised |-> TRUE]

\* (mutant) data[key] answers with the first item whatever the key
GetItemIgnoresKey(data, key) ==
    IF data.cls # "dict" \/ data.items = <<>> THEN [raised |-> TRUE]
    ELSE [raised |-> FALSE, value |-> data.items[1][2]]

\* data[key]: TypeError unless data is a dict, KeyError unless key is in it
GetItem(data, key) ==
    IF data.cls # "dict" THEN [raised |-> TRUE]
    ELSE LET hits == { k \in DOMAIN data.items : data.items[k][1] = key }
         IN  IF hits = {} THEN [raised |-> TRUE]
             ELSE [raised |-> FALSE,
                   value  |-> data.items[CHOOSE k \in hits : \A j \in hits : j <= k][2]]

\* ------------------------------------------------------------ file system
Absent == [kind |-> "absent"]

Stored(bytes) == [kind |-> "file", bytes |-> bytes]

\* os.path.dirname
dirname(path) == SubSeq(path, 1, Len(path) - 1)

\* os.makedirs(d, exist_ok=True) raises FileNotFoundError on the empty path
MakedirsRaises(d) == d = <<>>

\* --------------------------------------------------------------- __init__
\* no train() call is followed by value
FitIdle == train_X = <<>> /\ train_y = <<>> /\ learned = None

\* numpy's generator as the process starts: seeded from the system
Unseeded == [seed |-> "entropy", pos |-> 0]

\* no generator call is followed
GenIdle == clock = [kind |-> "ts", day |-> 0, hour |-> 0] /\ rng = Unseeded /\ first = None

\* DataPipeline(): no data lake, nothing processed
LakeIdle ==
    /\ data_lake = None
    /\ processed_records = 0
    /\ ingested = 0
    /\ calls = 0
    /\ upload = "none"

\* no DataPipeline call is followed
PipeIdle == records = None /\ returned = None /\ log = <<>> /\ GenIdle /\ LakeIdle

Init ==
    /\ FitIdle
    /\ PipeIdle
    /\ model_path \in Paths
    /\ model = [i \in Instances |-> None]
    /\ scaler = [i \in Instances |-> None]
    /\ is_trained = [i \in Instances |-> FALSE]
    /\ file = Absent
    /\ runs = 0
    /\ succeeded = [i \in Instances |-> FALSE]
    /\ ret = [op |-> "__init__", self |-> "A", raised |-> FALSE, value |-> None]

Return(op, self, value) == [op |-> op, self |-> self, raised |-> FALSE, value |-> value]

Raise(op, self, exc) == [op |-> op, self |-> self, raised |-> TRUE, value |-> exc]

\* ------------------------------------------------------------------ train
MetricsKeys == {"mse", "rmse", "r2_score", "trained_at"}

ErrorKeys == {"error"}

\* (mutant) an argument that is given is kept, the missing one is synthetic
TrainDataKeepsGiven(features, targets) ==
    [features |-> IF IsNone(features)
                  THEN generate_training_data(DefaultSamples).features ELSE features,
     targets  |-> IF IsNone(targets)
                  THEN generate_training_data(DefaultSamples).targets ELSE targets]

\* the data train() works on: synthetic unless both arguments are given
TrainData(features, targets) ==
    IF IsNone(features) \/ IsNone(targets)
    THEN generate_training_data(DefaultSamples)
    ELSE [features |-> features, targets |-> targets]

\* the statement of train() that raises on this data, or "none"
TrainStage(features, targets) ==
    LET d  == TrainData(features, targets)
        sp == train_test_split(d.features, d.targets)
    IN  IF sp.raised THEN "split"
        ELSE IF FitTransformRaises(sp.X_train) THEN "fit_transform"
        ELSE IF TransformRaises(Fitted(StandardScaler(0), sp.X_train), sp.X_test)
             THEN "transform"
        ELSE IF FitRaises(sp.y_train) THEN "fit"
        ELSE IF MetricsRaise(sp.y_test) THEN "metrics"
        ELSE "none"

\* (mutant) the exception leaves train()
TrainResultReraises(self, stage) ==
    IF stage = "none" THEN Return("train", self, MetricsKeys)
    ELSE Raise("train", self, "Exception")

\* return metrics; except Exception: return {'error': str(e)}
TrainResult(self, stage) ==
    Return("train", self, IF stage = "none" THEN MetricsKeys ELSE ErrorKeys)

\* (mutant) is_trained is cleared when training starts
TrainedFlagCleared(self, stage) == stage = "none"

\* self.is_trained = True is the last assignment, after the evaluation
TrainedFlag(self, stage) == IF stage = "none" THEN TRUE ELSE is_trained[self]

train(self, features, targets) ==
    /\ runs < MaxRuns
    /\ LET r       == runs + 1
           d       == TrainData(features, targets)
           sp      == train_test_split(d.features, d.targets)
           stage   == TrainStage(features, targets)
       IN  /\ runs' = IF stage = "split" THEN runs ELSE r
           \* self.scaler = StandardScaler(); self.scaler.fit_transform(X_train)
           /\ scaler' =
                IF stage = "split" THEN scaler
                ELSE IF stage = "fit_transform"
                     THEN [scaler EXCEPT ![self] = StandardScaler(r)]
                     ELSE [scaler EXCEPT ![self] = Fitted(StandardScaler(r), sp.X_train)]
           \* self.model = RandomForestRegressor(...); self.model.fit(...)
           /\ model' =
                IF stage \in {"split", "fit_transform", "transform"} THEN model
                ELSE IF stage = "fit"
                     THEN [model EXCEPT ![self] = RandomForestRegressor(r)]
                     ELSE [model EXCEPT ![self] = Fitted(RandomForestRegressor(r), sp.X_train)]
           /\ is_trained' = [is_trained EXCEPT ![self] = TrainedFlag(self, stage)]
           /\ succeeded' =
                IF stage = "none" THEN [succeeded EXCEPT ![self] = TRUE] ELSE succeeded
           /\ ret' = TrainResult(self, stage)
    /\ UNCHANGED <<model_path, file>>

\* ---------------------------------------------------------------- predict
\* (mutant) predict without the is_trained check
predict_unguarded(self, features) ==
    IF TransformRaises(scaler[self], features)
    THEN [raised |-> TRUE, value |-> "Exception"]
    ELSE IF ModelPredictRaises(model[self], features)
         THEN [raised |-> TRUE, value |-> "Exception"]
    ELSE [raised |-> FALSE,
          value  |-> [k \in 1..features.rows |-> Price(model[self], scaler[self])]]

predict(self, features) ==
    IF ~is_trained[self] THEN [raised |-> TRUE, value |-> "ValueError"]
    ELSE IF TransformRaises(scaler[self], features)
         THEN [raised |-> TRUE, value |-> "Exception"]
    ELSE IF ModelPredictRaises(model[self], features)
         THEN [raised |-> TRUE, value |-> "Exception"]
    ELSE [raised |-> FALSE,
          value  |-> [k \in 1..features.rows |-> Price(model[self], scaler[self])]]

\* the six arguments, each finite or not;
\* at most one of them is not finite
SingleInputs ==
    { [k \in 1..NFeatures |-> IF k = j THEN "inf" ELSE "fin"] : j \in 0..NFeatures }

\* np.array([[base_price, demand, competition_price, time_of_day, day_of_week, season]])
SingleBatch(args) ==
    ndarray2(1, Len(args), IF \E k \in DOMAIN args : args[k] = "inf" THEN {1} ELSE {})

predict_single(self, args) ==
    LET prediction == predict(self, SingleBatch(args))
    IN  IF prediction.raised THEN prediction
        ELSE [raised |-> FALSE, value |-> prediction.value[1]]

Predict(self, features) ==
    /\ ret' = [op |-> "predict", self |-> self] @@ predict(self, features)
    /\ UNCHANGED <<model_path, model, scaler, is_trained, file, runs, succeeded>>

PredictSingle(self, args) ==
    /\ ret' = [op |-> "predict_single", self |-> self] @@ predict_single(self, args)
    /\ UNCHANGED <<model_path, model, scaler, is_trained, file, runs, succeeded>>

\* ------------------------------------------------------------- save_model
\* (mutant) the scaler is left out of what is pickled
ArtifactWithoutScaler(self) == Dict(<< <<"model", model[self]>>, <<"scaler", None>> >>)

\* what save_model pickles
Artifact(self) == Dict(<< <<"model", model[self]>>, <<"scaler", scaler[self]>> >>)

\* (mutant) save_model without the is_trained check
save_model_unguarded(self, io) ==
    /\ IF MakedirsRaises(dirname(model_path)) \/ io = "open_fails"
       THEN /\ ret' = Return("save_model", self, FALSE)
            /\ UNCHANGED file
       ELSE IF io = "write_fails"
            THEN /\ ret' = Return("save_model", self, FALSE)
                 /\ file' = Stored(<<>>)
       ELSE /\ ret' = Return("save_model", self, TRUE)
            /\ file' = Stored(pickle_dump(Artifact(self)))
    /\ UNCHANGED <<model_path, model, scaler, is_trained, runs, succeeded>>

\* io: whether open() and the write go through
save_model(self, io) ==
    /\ IF ~is_trained[self]
       THEN /\ ret' = Return("save_model", self, FALSE)
            /\ UNCHANGED file
       ELSE IF MakedirsRaises(dirname(model_path)) \/ io = "open_fails"
            THEN /\ ret' = Return("save_model", self, FALSE)
                 /\ UNCHANGED file
       ELSE IF io = "write_fails"
            \* open(.., 'wb') has truncated the file
            THEN /\ ret' = Return("save_model", self, FALSE)
                 /\ file' = Stored(<<>>)
       ELSE /\ ret' = Return("save_model", self, TRUE)
            /\ file' = Stored(pickle_dump(Artifact(self)))
    /\ UNCHANGED <<model_path, model, scaler, is_trained, runs, succeeded>>

IoOutcomes == {"ok", "open_fails", "write_fails"}

\* ------------------------------------------------------------- load_model
load_model(self) ==
    LET data == IF file.kind = "absent" THEN [raised |-> TRUE] ELSE pickle_load(file.bytes)
        m    == IF data.raised THEN [raised |-> TRUE] ELSE GetItem(data.value, "model")
        s    == IF data.raised THEN [raised |-> TRUE] ELSE GetItem(data.value, "scaler")
    IN  /\ IF data.raised \/ m.raised
           \* open, pickle.load or data['model'] raised
           THEN /\ ret' = Return("load_model", self, FALSE)
                /\ UNCHANGED <<model, scaler, is_trained, succeeded>>
           ELSE IF s.raised
           \* self.model is assigned, then data['scaler'] raised
           THEN /\ model' = [model EXCEPT ![self] = m.value]
                /\ ret' = Return("load_model", self, FALSE)
                /\ UNCHANGED <<scaler, is_trained, succeeded>>
           ELSE /\ model' = [model EXCEPT ![self] = m.value]
                /\ scaler' = [scaler EXCEPT ![self] = s.value]
                /\ is_trained' = [is_trained EXCEPT ![self] = TRUE]
                /\ succeeded' = [succeeded EXCEPT ![self] = TRUE]
                /\ ret' = Return("load_model", self, TRUE)
        /\ UNCHANGED <<model_path, file, runs>>

\* ------------------------------------------------- get_feature_importance
feature_names ==
    <<"base_price", "demand", "competition_price", "time_of_day", "day_of_week", "season">>

\* the k-th entry of m.feature_importances_
Importance(m, k) == [ensemble |-> m.run, feature |-> k]

Min(a, b) == IF a < b THEN a ELSE b

\* (mutant) get_feature_importance without the is_trained check
get_feature_importance_unguarded(self) ==
    IF model[self].cls # "RandomForestRegressor" \/ ~IsFitted(model[self])
    THEN [raised |-> TRUE, value |-> "Exception"]
    ELSE [raised |-> FALSE,
          value  |-> [k \in 1..Min(Len(feature_names), model[self].n_features_in_) |->
                        <<feature_names[k], Importance(model[self], k)>>]]

\* dict(zip(feature_names, importances)), as its items
get_feature_importance(self) ==
    IF ~is_trained[self] THEN [raised |-> FALSE, value |-> <<>>]
    ELSE IF model[self].cls # "RandomForestRegressor" \/ ~IsFitted(model[self])
         \* self.model.feature_importances_ raises
         THEN [raised |-> TRUE, value |-> "Exception"]
    ELSE [raised |-> FALSE,
          value  |-> [k \in 1..Min(Len(feature_names), model[self].n_features_in_) |->
                        <<feature_names[k], Importance(model[self], k)>>]]

GetFeatureImportance(self) ==
    /\ ret' = [op |-> "get_feature_importance", self |-> self] @@ get_feature_importance(self)
    /\ UNCHANGED <<model_path, model, scaler, is_trained, file, runs, succeeded>>

\* the keys of a dict given by its items
Keys(items) == { items[k][1] : k \in DOMAIN items }

\* ------------------------------------------------------------ environment
\* an ensemble fitted elsewhere
ForeignModel == Fitted(RandomForestRegressor(0), ndarray2(1, NFeatures, {}))

\* what another process may leave at model_path: nothing, an empty or
\* garbled file, a pickled list, a dict lacking a key, a dict of Nones
ForeignContents ==
    { Absent,
      Stored(<<>>),
      Stored(<<Tok("garbage")>>),
      Stored(pickle_dump(PyList)),
      Stored(pickle_dump(Dict(<< <<"model", ForeignModel>> >>))),
      Stored(pickle_dump(Dict(<< <<"scaler", None>> >>))),
      Stored(pickle_dump(Dict(<< <<"model", None>>, <<"scaler", None>> >>))) }

\* the file at model_path is deleted or rewritten from outside
ExternalWrite(content) ==
    /\ file' = content
    /\ ret' = Return("external", "A", FALSE)
    /\ UNCHANGED <<model_path, model, scaler, is_trained, runs, succeeded>>

\* ------------------------------------------------------------------- spec
\* One instance, every operation, and the environment.
Solo == {"A"}

Next ==
    \/ \E self \in Solo, features \in TrainFeatures, targets \in TrainTargets :
          train(self, features, targets) /\ UNCHANGED <<fitVars, pipeVars>>
    \/ \E self \in Solo, features \in PredictBatches :
          Predict(self, features) /\ UNCHANGED <<fitVars, pipeVars>>
    \/ \E self \in Solo, args \in SingleInputs :
          PredictSingle(self, args) /\ UNCHANGED <<fitVars, pipeVars>>
    \/ \E self \in Solo, io \in IoOutcomes :
          save_model(self, io) /\ UNCHANGED <<fitVars, pipeVars>>
    \/ \E self \in Solo : load_model(self) /\ UNCHANGED <<fitVars, pipeVars>>
    \/ \E self \in Solo : GetFeatureImportance(self) /\ UNCHANGED <<fitVars, pipeVars>>
    \/ \E content \in ForeignContents :
          ExternalWrite(content) /\ UNCHANGED <<fitVars, pipeVars>>

Spec == Init /\ [][Next]_vars

\* Two instances on the same model_path: A trains, saves and predicts, the
\* other instance loads what is at model_path and predicts.
NextRoundTrip ==
    \/ \E features \in TrainFeatures, targets \in TrainTargets :
          train("A", features, targets) /\ UNCHANGED <<fitVars, pipeVars>>
    \/ \E io \in IoOutcomes : save_model("A", io) /\ UNCHANGED <<fitVars, pipeVars>>
    \/ load_model("B") /\ UNCHANGED <<fitVars, pipeVars>>
    \/ \E self \in Instances, features \in PredictBatches :
          Predict(self, features) /\ UNCHANGED <<fitVars, pipeVars>>
    \/ \E content \in ForeignContents :
          ExternalWrite(content) /\ UNCHANGED <<fitVars, pipeVars>>

SpecRoundTrip == Init /\ [][NextRoundTrip]_vars

\* One instance and a file at model_path that only its save_model writes:
\* the file is absent, deleted, or what save_model has left there.
NextOwnFile ==
    \/ \E features \in TrainFeatures, targets \in TrainTargets :
          train("A", features, targets) /\ UNCHANGED <<fitVars, pipeVars>>
    \/ \E features \in PredictBatches :
          Predict("A", features) /\ UNCHANGED <<fitVars, pipeVars>>
    \/ \E io \in IoOutcomes : save_model("A", io) /\ UNCHANGED <<fitVars, pipeVars>>
    \/ load_model("A") /\ UNCHANGED <<fitVars, pipeVars>>
    \/ GetFeatureImportance("A") /\ UNCHANGED <<fitVars, pipeVars>>
    \/ ExternalWrite(Absent) /\ UNCHANGED <<fitVars, pipeVars>>

SpecOwnFile == Init /\ [][NextOwnFile]_vars

\* train() calls on one instance, each followed with the arguments it was given
TrainWith(features, targets) ==
    /\ train("A", features, targets)
    /\ train_X' = features
    /\ train_y' = targets
    /\ UNCHANGED <<learned, pipeVars>>

NextTrainArgs == \E features \in TrainFeatures, targets \in TrainTargets : TrainWith(features, targets)

SpecTrainArgs == Init /\ [][NextTrainArgs]_vars

\* ------------------------------------------------------- train(), by value
\* One train() call on explicit data: what the scaler is fitted on and what
\* feature_importances_ holds afterwards.  A mean/std pair is kept exactly, as
\* the count, sum and sum of squares it is computed from.
MaxSamples == 3

\* feature rows: all ones, or a two in the first or in the second column
FeatureRows ==
    { [k \in 1..NFeatures |-> IF k = j THEN 2 ELSE 1] : j \in 0..2 }

TargetValues == 1..2

RECURSIVE SumSeq(_)
SumSeq(q) == IF q = <<>> THEN 0 ELSE Head(q) + SumSeq(Tail(q))

\* train_test_split on explicit rows: the same split as train_test_split
SplitValues(Xs, ys) ==
    LET n       == Len(Xs)
        n_train == n - NTest(n)
    IN  IF Len(Xs) # Len(ys) \/ n = 0 \/ n_train = 0
        THEN [raised |-> TRUE]
        ELSE [raised  |-> FALSE,
              X_train |-> SubSeq(Xs, 1, n_train),
              X_test  |-> SubSeq(Xs, n_train + 1, n),
              y_train |-> SubSeq(ys, 1, n_train),
              y_test  |-> SubSeq(ys, n_train + 1, n)]

\* StandardScaler().fit(rows): per column, what mean_ and scale_ are computed from
ScalerFit(rows) ==
    [k \in 1..NFeatures |->
        [count |-> Len(rows),
         sum   |-> SumSeq([i \in 1..Len(rows) |-> rows[i][k]]),
         sumsq |-> SumSeq([i \in 1..Len(rows) |-> rows[i][k] * rows[i][k]])]]

\* scaler.transform(rows): each value with the parameters that scale it
ScalerTransform(params, rows) ==
    [i \in 1..Len(rows) |-> [k \in 1..NFeatures |-> [x |-> rows[i][k], by |-> params[k]]]]

\* (mutant) the scaler is fitted on all rows, before the split
FittedOnAll(Xs, ys) == ScalerFit(Xs)

\* the rows self.scaler.fit_transform is given: the training split
FittedOn(Xs, ys) == ScalerFit(SplitValues(Xs, ys).X_train)

\* no tree of the ensemble can split: one target value only, or one feature row only
Unsplittable(X_scaled, y_train) ==
    \/ \A i, j \in 1..Len(y_train) : y_train[i] = y_train[j]
    \/ \A i, j \in 1..Len(X_scaled) : X_scaled[i] = X_scaled[j]

\* the impurity decrease the trees may credit to each feature: none when no
\* tree can split, else some on the features that vary and none on the others
RawDecreases(X_scaled, y_train) ==
    IF Unsplittable(X_scaled, y_train)
    THEN { [k \in 1..NFeatures |-> 0] }
    ELSE { r \in [1..NFeatures -> 0..1] :
             /\ \E k \in 1..NFeatures : r[k] > 0
             /\ \A k \in 1..NFeatures :
                   (\A i, j \in 1..Len(X_scaled) : X_scaled[i][k] = X_scaled[j][k]) => r[k] = 0 }

\* model.feature_importances_ as fractions <<numerator, denominator>>: the
\* decreases over their sum, and all zero when no tree has split
feature_importances_(raw) ==
    LET total == SumSeq(raw)
    IN  IF total = 0 THEN [k \in 1..NFeatures |-> <<0, 1>>]
        ELSE [k \in 1..NFeatures |-> <<raw[k], total>>]

\* train(train_X, train_y) up to self.model.fit
TrainByValue ==
    /\ learned = None
    /\ LET sp == SplitValues(train_X, train_y)
       IN  IF sp.raised
           THEN learned' = [cls |-> "error"]
           ELSE LET params   == FittedOn(train_X, train_y)
                    X_scaled == ScalerTransform(params, sp.X_train)
                IN  \E raw \in RawDecreases(X_scaled, sp.y_train) :
                       learned' = [cls            |-> "artifact",
                                   scaler         |-> params,
                                   test_scaled_by |-> params,
                                   importances    |-> feature_importances_(raw)]
    /\ ret' = [op |-> "train", self |-> "A",
               raised |-> SplitValues(train_X, train_y).raised, value |-> None]
    /\ UNCHANGED <<train_X, train_y>>
    /\ UNCHANGED <<model_path, model, scaler, is_trained, file, runs, succeeded>>

\* the model variables of a fresh instance, left alone
ModelIdle ==
    /\ model_path = <<"models", "pricing_model.pkl">>
    /\ model = [i \in Instances |-> None]
    /\ scaler = [i \in Instances |-> None]
    /\ is_trained = [i \in Instances |-> FALSE]
    /\ file = Absent
    /\ runs = 0
    /\ succeeded = [i \in Instances |-> FALSE]
    /\ ret = [op |-> "__init__", self |-> "A", raised |-> FALSE, value |-> None]

InitFit ==
    /\ ModelIdle
    /\ PipeIdle
    /\ \E n \in 0..MaxSamples :
          /\ train_X \in [1..n -> FeatureRows]
          /\ train_y \in [1..n -> TargetValues]
    /\ learned = None

\* the batches predict is given, by value
ValueBatches == UNION { [1..n -> FeatureRows] : n \in 0..MaxRows }

\* the six arguments of predict_single, by name
SingleArguments ==
    { [base_price |-> r[1], demand |-> r[2], competition_price |-> r[3],
       time_of_day |-> r[4], day_of_week |-> r[5], season |-> r[6]] : r \in FeatureRows }

\* self.model.predict on scaled rows: the fitted forest is a function of the
\* scaled row, so one price per row, in the order of the rows
ForestPredict(X_scaled) ==
    [i \in 1..Len(X_scaled) |-> [cls |-> "price", of |-> X_scaled[i]]]

\* predict(features) on the instance train() has left behind
predict_values(rows) ==
    IF learned.cls # "artifact" THEN [raised |-> TRUE, value |-> "ValueError"]
    ELSE [raised |-> FALSE,
          value  |-> ForestPredict(ScalerTransform(learned.scaler, rows))]

\* (mutant) demand and base_price change places in the row
SingleRowExchanged(args) ==
    << <<args.demand, args.base_price, args.competition_price,
         args.time_of_day, args.day_of_week, args.season>> >>

\* np.array([[base_price, demand, competition_price, time_of_day, day_of_week, season]])
SingleRow(args) ==
    << <<args.base_price, args.demand, args.competition_price,
         args.time_of_day, args.day_of_week, args.season>> >>

\* predict_single(...): float(self.predict(features)[0])
predict_single_values(args) ==
    LET prediction == predict_values(SingleRow(args))
    IN  IF prediction.raised THEN prediction
        ELSE [raised |-> FALSE, value |-> prediction.value[1]]

PredictByValue(rows) ==
    /\ ret' = [op |-> "predict", self |-> "A", given |-> rows] @@ predict_values(rows)
    /\ UNCHANGED <<model_path, model, scaler, is_trained, file, runs, succeeded, fitVars>>

PredictSingleByValue(args) ==
    /\ ret' = [op |-> "predict_single", self |-> "A", given |-> args]
                 @@ predict_single_values(args)
    /\ UNCHANGED <<model_path, model, scaler, is_trained, file, runs, succeeded, fitVars>>

NextFit ==
    \/ TrainByValue /\ UNCHANGED pipeVars
    \/ \E rows \in ValueBatches : PredictByValue(rows) /\ UNCHANGED pipeVars
    \/ \E args \in SingleArguments : PredictSingleByValue(args) /\ UNCHANGED pipeVars

SpecFit == InitFit /\ [][NextFit]_vars

\* ------------------------------------------------------------ DataPipeline
\* A DataFrame is its set of columns and its sequence of rows; a row maps each
\* column to a cell.  Numbers are held in halves (Num(x) is x), which keeps
\* the median of two whole numbers exact.
MaxRecords == 3

\* the records of a frame that has the columns of the schema
MaxSchemaRecords == 2

\* the records of a frame of few different records
MaxFewRecords == 4

NaN == [kind |-> "nan"]

Num(x) == [kind |-> "num", v |-> 2 * x]

\* a value of type str
Text == [kind |-> "str"]

DataFrame(cols, rows) == [cls |-> "DataFrame", cols |-> cols, rows |-> rows]

\* the cells the frames passed in are made of
PriceCells == {NaN, Num(0), Num(2)}

DemandCells == {NaN, Num(0), Num(100)}

DemandEdgeCells == {NaN, Num(0), Num(50), Num(100), Num(101), Num(300), Num(500), Num(501)}

TypedPriceCells == {NaN, Num(1), Text}

RatioPriceCells == {NaN, Num(-1), Num(2)}

BasePriceCells == {NaN, Num(0), Num(2), Text}

RowSets ==
    { [current_price : PriceCells, demand : DemandCells],
      [demand : DemandEdgeCells],
      [current_price : TypedPriceCells],
      [current_price : RatioPriceCells, base_price : BasePriceCells] }

\* few different records: a price that passes the filter or not, and a demand
FewRowSets == { [current_price : {Num(0), Num(2)}, demand : DemandCells] }

\* 'PROD-0001', 'PROD-0002', ...
ProductId(k) == [kind |-> "str", s |-> k]

\* a datetime
Timestamp(day, hour) == [kind |-> "ts", day |-> day, hour |-> hour]

\* the columns validate_data and aggregate_metrics look for
OptionalColumns == {"current_price", "demand", "product_id", "timestamp"}

\* the cells of a record of the schema
SchemaCells(c) ==
    CASE c = "current_price" -> {Num(0), Num(2)}
      [] c = "demand"        -> {Num(0), Num(100)}
      [] c = "product_id"    -> {ProductId(1), ProductId(2)}
      [] c = "timestamp"     -> {Timestamp(1, 0), Timestamp(2, 0)}
      [] c = "base_price"    -> {Num(2)}

\* records of the schema without some of the optional columns
SchemaRowSets ==
    { { r \in [present \cup {"base_price"} ->
                  UNION { SchemaCells(c) : c \in present \cup {"base_price"} }] :
            \A c \in DOMAIN r : r[c] \in SchemaCells(c) } :
      present \in SUBSET OptionalColumns }

Columns(rowset) == DOMAIN (CHOOSE r \in rowset : TRUE)

Column(frame, c) == [i \in 1..Len(frame.rows) |-> frame.rows[i][c]]

HasText(frame, c) == \E i \in 1..Len(frame.rows) : frame.rows[i][c].kind = "str"

\* df.dtypes: str values make an object column, pd.cut makes a category column
dtype(frame, c) ==
    IF c = "demand_level" THEN "category"
    ELSE IF HasText(frame, c) THEN "object"
    ELSE IF \E i \in 1..Len(frame.rows) : frame.rows[i][c].kind = "ts" THEN "datetime64[ns]"
    ELSE "float64"

\* df.select_dtypes(include=[np.number]).columns
numeric_cols(frame) == { c \in frame.cols : dtype(frame, c) = "float64" }

\* the numbers of a column, missing values skipped
Values(cells) ==
    LET nums == SelectSeq(cells, LAMBDA c : c.kind = "num")
    IN  [i \in 1..Len(nums) |-> nums[i].v]

\* the k-th smallest of a sequence of numbers
Kth(vals, k) ==
    CHOOSE v \in { vals[i] : i \in 1..Len(vals) } :
        /\ Cardinality({ i \in 1..Len(vals) : vals[i] < v }) < k
        /\ k <= Cardinality({ i \in 1..Len(vals) : vals[i] <= v })

\* Series.median(): NaN for a column without a number
median(cells) ==
    LET vals == Values(cells)
        n    == Len(vals)
    IN  IF n = 0 THEN NaN
        ELSE IF n % 2 = 1 THEN [kind |-> "num", v |-> Kth(vals, (n + 1) \div 2)]
        ELSE [kind |-> "num", v |-> (Kth(vals, n \div 2) + Kth(vals, n \div 2 + 1)) \div 2]

\* df.drop_duplicates(): the first of each group of equal rows, NaN equal to NaN
RECURSIVE KeepFirst(_, _)
KeepFirst(rows, seen) ==
    IF rows = <<>> THEN <<>>
    ELSE IF Head(rows) \in seen THEN KeepFirst(Tail(rows), seen)
    ELSE <<Head(rows)>> \o KeepFirst(Tail(rows), seen \cup {Head(rows)})

drop_duplicates(frame) == [frame EXCEPT !.rows = KeepFirst(frame.rows, {})]

\* df[numeric_cols].fillna(df[numeric_cols].median()): a column without NaN is
\* left as it is, a NaN median fills nothing
fillna(frame) ==
    [frame EXCEPT !.rows =
        [i \in 1..Len(frame.rows) |->
            [c \in frame.cols |->
                IF c \in numeric_cols(frame) /\ frame.rows[i][c] = NaN
                THEN median(Column(frame, c))
                ELSE frame.rows[i][c]]]]

\* (mutant) the price filter keeps a price of zero
GreaterOrEqualZero(cell) == cell.kind = "num" /\ cell.v >= 0

\* cell > 0: False for NaN
GreaterThanZero(cell) == cell.kind = "num" /\ cell.v > 0

\* df[df['current_price'] > 0]
PriceFilter(frame) ==
    [frame EXCEPT !.rows = SelectSeq(frame.rows, LAMBDA r : GreaterThanZero(r["current_price"]))]

RECURSIVE GCD(_, _)
GCD(a, b) == IF b = 0 THEN a ELSE GCD(b, a % b)

Abs(a) == IF a < 0 THEN -a ELSE a

\* a / b on floats: division by zero gives inf or NaN
Divide(a, b) ==
    IF a.kind # "num" \/ b.kind # "num" THEN NaN
    ELSE IF b.v = 0
         THEN (IF a.v = 0 THEN NaN ELSE [kind |-> "inf", sign |-> IF a.v > 0 THEN 1 ELSE -1])
    ELSE LET g    == GCD(Abs(a.v), Abs(b.v))
             sign == IF b.v < 0 THEN -1 ELSE 1
         IN  [kind |-> "ratio", num |-> sign * (a.v \div g), den |-> Abs(b.v) \div g]

\* df['price_ratio'] = df['current_price'] / df['base_price']
WithPriceRatio(frame) ==
    [frame EXCEPT
        !.cols = @ \cup {"price_ratio"},
        !.rows = [i \in 1..Len(frame.rows) |->
                     [c \in frame.cols \cup {"price_ratio"} |->
                         IF c = "price_ratio"
                         THEN Divide(frame.rows[i]["current_price"], frame.rows[i]["base_price"])
                         ELSE frame.rows[i][c]]]]

bins == <<0, 100, 300, 500>>

labels == <<"low", "medium", "high", "very_high">>

Label(l) == [kind |-> "cat", label |-> l]

\* pd.cut(bins=[0, 100, 300, 500, np.inf]): intervals open on the left and
\* closed on the right, NaN outside of them
cut(cell) ==
    IF cell.kind # "num" THEN NaN
    ELSE IF \E k \in 1..Len(bins) :
               /\ 2 * bins[k] < cell.v
               /\ (k < Len(bins) => cell.v <= 2 * bins[k + 1])
         THEN Label(labels[CHOOSE k \in 1..Len(bins) :
                               /\ 2 * bins[k] < cell.v
                               /\ (k < Len(bins) => cell.v <= 2 * bins[k + 1])])
         ELSE NaN

\* df['demand_level'] = pd.cut(df['demand'], ...)
WithDemandLevel(frame) ==
    [frame EXCEPT
        !.cols = @ \cup {"demand_level"},
        !.rows = [i \in 1..Len(frame.rows) |->
                     [c \in frame.cols \cup {"demand_level"} |->
                         IF c = "demand_level" THEN cut(frame.rows[i]["demand"])
                         ELSE frame.rows[i][c]]]]

\* The objects of one transform_data call: heap[1] is the frame the caller
\* passed (data), df is the object the local name df is bound to.
Enter(frame) == [heap |-> <<frame>>, df |-> 0, raised |-> FALSE]

\* df = <a new object>
Bind(st, frame) == [st EXCEPT !.heap = Append(@, frame), !.df = Len(st.heap) + 1]

\* (mutant) an assignment into df writes through to every frame
SetItemThrough(st, frame) == [st EXCEPT !.heap = [o \in DOMAIN st.heap |-> frame]]

\* df[...] = ...: the object df is bound to changes in place
SetItem(st, frame) == [st EXCEPT !.heap[st.df] = frame]

Raised(st) == [st EXCEPT !.raised = TRUE]

\* df = data.copy()
StepCopy(st) == Bind(st, st.heap[1])

\* df = df.drop_duplicates()
StepDropDuplicates(st) == Bind(st, drop_duplicates(st.heap[st.df]))

\* df[numeric_cols] = df[numeric_cols].fillna(df[numeric_cols].median())
StepFillna(st) == SetItem(st, fillna(st.heap[st.df]))

\* if 'current_price' in df.columns: df = df[df['current_price'] > 0]
\* (TypeError for a str value)
StepPriceFilter(st) ==
    LET df == st.heap[st.df]
    IN  IF st.raised \/ "current_price" \notin df.cols THEN st
        ELSE IF HasText(df, "current_price") THEN Raised(st)
        ELSE Bind(st, PriceFilter(df))

\* if both price columns exist: df['price_ratio'] = ...  (TypeError for a str value)
StepPriceRatio(st) ==
    LET df == st.heap[st.df]
    IN  IF st.raised \/ ~({"current_price", "base_price"} \subseteq df.cols) THEN st
        ELSE IF HasText(df, "current_price") \/ HasText(df, "base_price") THEN Raised(st)
        ELSE SetItem(st, WithPriceRatio(df))

\* if 'demand' in df.columns: df['demand_level'] = pd.cut(...)  (TypeError for a str value)
StepDemandLevel(st) ==
    LET df == st.heap[st.df]
    IN  IF st.raised \/ "demand" \notin df.cols THEN st
        ELSE IF HasText(df, "demand") THEN Raised(st)
        ELSE SetItem(st, WithDemandLevel(df))

\* (mutant) the missing values are filled before the duplicates are dropped
TryBlockFillFirst(frame) ==
    StepDemandLevel(StepPriceRatio(StepPriceFilter(
        StepDropDuplicates(StepFillna(StepCopy(Enter(frame)))))))

\* the body of the try block; a step that raised ends it
TryBlock(frame) ==
    StepDemandLevel(StepPriceRatio(StepPriceFilter(
        StepFillna(StepDropDuplicates(StepCopy(Enter(frame)))))))

\* return df, or return data from the except block
ReturnValue(st) == IF st.raised THEN st.heap[1] ELSE st.heap[st.df]

\* the frame transform_data returns for a frame
TransformFrame(frame) == ReturnValue(TryBlock(frame))

\* what a call left for its caller
Result(op, value) == [cls |-> "return", op |-> op, raised |-> FALSE, value |-> value]

Event(level, msg) == [level |-> level, msg |-> msg]

\* transform_data(records): the frame returned, whether it is the object
\* passed in, and the event logged
Leave(st) ==
    /\ records' = st.heap[1]
    /\ returned' = [cls |-> "return", op |-> "transform_data", raised |-> FALSE,
                    failed |-> st.raised,
                    is_data |-> (st.raised \/ st.df = 1),
                    value |-> ReturnValue(st)]
    /\ log' = IF st.raised
              THEN <<Event("ERROR", "Failed to transform data")>>
              ELSE <<Event("INFO", "Transformed data")>>

transform_data ==
    /\ records # None
    /\ Leave(TryBlock(records))

\* (mutant) data.duplicated(keep=False): every member of a group of equal rows
DuplicatedKeepNone(rows) ==
    [i \in 1..Len(rows) |-> \E j \in 1..Len(rows) : j # i /\ rows[j] = rows[i]]

\* data.duplicated(): True for a row already seen, NaN equal to NaN
duplicated(rows) ==
    [i \in 1..Len(rows) |-> rows[i] \in { rows[j] : j \in 1..(i - 1) }]

\* (...).sum() of a boolean series
CountTrue(flags) == Cardinality({ i \in 1..Len(flags) : flags[i] })

\* four times Series.quantile(k/4) of sorted numbers, by linear interpolation
Quantile4(vals, k) ==
    LET n == Len(vals)
        p == (n - 1) * k
        i == p \div 4 + 1
        f == p % 4
    IN  4 * Kth(vals, i) + (IF f = 0 THEN 0 ELSE f * (Kth(vals, i + 1) - Kth(vals, i)))

\* (data['demand'] < q1 - 1.5 * iqr) | (data['demand'] > q3 + 1.5 * iqr),
\* all False when the quantiles are NaN
OutlierFlags(cells) ==
    LET vals == Values(cells)
    IN  [i \in 1..Len(cells) |->
            /\ cells[i].kind = "num"
            /\ Len(vals) > 0
            /\ LET q1 == Quantile4(vals, 1)
                   q3 == Quantile4(vals, 3)
               IN  \/ 8 * cells[i].v < 5 * q1 - 3 * q3
                   \/ 8 * cells[i].v > 5 * q3 - 3 * q1]

\* the keys of validation_results
ReportKeys(frame) ==
    {"total_records", "missing_values", "duplicate_records", "data_types", "validated_at"}
        \cup (IF "current_price" \in frame.cols THEN {"negative_prices"} ELSE {})
        \cup (IF "demand" \in frame.cols THEN {"demand_outliers"} ELSE {})

\* validation_results
Report(frame) ==
    [k \in ReportKeys(frame) |->
        CASE k = "total_records" -> Len(frame.rows)
          [] k = "missing_values" ->
                [c \in frame.cols |-> CountTrue([i \in 1..Len(frame.rows) |-> frame.rows[i][c] = NaN])]
          [] k = "duplicate_records" -> CountTrue(duplicated(frame.rows))
          [] k = "data_types" -> [c \in frame.cols |-> dtype(frame, c)]
          [] k = "validated_at" -> "now"
          [] k = "negative_prices" ->
                CountTrue([i \in 1..Len(frame.rows) |->
                              LET cell == frame.rows[i]["current_price"]
                              IN  cell.kind = "num" /\ cell.v < 0])
          [] k = "demand_outliers" -> CountTrue(OutlierFlags(Column(frame, "demand")))]

\* validate_data(records): a comparison with a str value raises TypeError
validate_data ==
    /\ records # None
    /\ IF \E c \in {"current_price", "demand"} \cap records.cols : HasText(records, c)
       THEN /\ returned' = [cls |-> "return", op |-> "validate_data", raised |-> TRUE,
                            value |-> "TypeError"]
            /\ log' = <<>>
       ELSE /\ returned' = Result("validate_data", Report(records))
            /\ log' = <<Event("INFO", "Data validation completed")>>
    /\ UNCHANGED records

\* Series.nunique(): the distinct values, NaN left out
nunique(cells) == Cardinality({ cells[i] : i \in 1..Len(cells) } \ {NaN})

\* Series.mean(): NaN for a column without a number
mean(cells) ==
    LET vals == Values(cells)
    IN  IF Len(vals) = 0 THEN NaN
        ELSE Divide([kind |-> "num", v |-> SumSeq(vals)], [kind |-> "num", v |-> 2 * Len(vals)])

\* Series.min() and Series.max() of numbers
Lowest(cells) ==
    IF Len(Values(cells)) = 0 THEN NaN ELSE [kind |-> "num", v |-> Kth(Values(cells), 1)]

Highest(cells) ==
    IF Len(Values(cells)) = 0 THEN NaN
    ELSE [kind |-> "num", v |-> Kth(Values(cells), Len(Values(cells)))]

\* Series.std(): the sample deviation, by what it is computed from
std(cells) ==
    LET vals == Values(cells)
    IN  IF Len(vals) < 2 THEN NaN
        ELSE [kind |-> "std", count |-> Len(vals), sum |-> SumSeq(vals),
              sumsq |-> SumSeq([i \in 1..Len(vals) |-> vals[i] * vals[i]])]

\* str(data['timestamp'].min()) and str(data['timestamp'].max())
Hours(cells) == { cells[i].day * 24 + cells[i].hour : i \in 1..Len(cells) }

Earliest(cells) ==
    IF cells = <<>> THEN [kind |-> "str", of |-> NaN]
    ELSE LET h == CHOOSE a \in Hours(cells) : \A b \in Hours(cells) : a <= b
         IN  [kind |-> "str", of |-> Timestamp(h \div 24, h % 24)]

Latest(cells) ==
    IF cells = <<>> THEN [kind |-> "str", of |-> NaN]
    ELSE LET h == CHOOSE a \in Hours(cells) : \A b \in Hours(cells) : a >= b
         IN  [kind |-> "str", of |-> Timestamp(h \div 24, h % 24)]

\* the keys of metrics
AggregateKeys(frame) ==
    {"total_products", "avg_price", "avg_demand", "total_records", "date_range", "aggregated_at"}
        \cup (IF "current_price" \in frame.cols THEN {"price_stats"} ELSE {})

\* (mutant) a statistic without its column is reported as missing
DefaultStatisticMissing == NaN

\* ... if <column> in data.columns else 0
DefaultStatistic == Num(0)

\* metrics
Metrics(frame) ==
    [k \in AggregateKeys(frame) |->
        CASE k = "total_products" ->
                IF "product_id" \in frame.cols
                THEN Num(nunique(Column(frame, "product_id"))) ELSE DefaultStatistic
          [] k = "avg_price" ->
                IF "current_price" \in frame.cols
                THEN mean(Column(frame, "current_price")) ELSE DefaultStatistic
          [] k = "avg_demand" ->
                IF "demand" \in frame.cols
                THEN mean(Column(frame, "demand")) ELSE DefaultStatistic
          [] k = "total_records" -> Len(frame.rows)
          [] k = "date_range" ->
                IF "timestamp" \in frame.cols
                THEN [start |-> Earliest(Column(frame, "timestamp")),
                      end   |-> Latest(Column(frame, "timestamp"))]
                ELSE [start |-> None, end |-> None]
          [] k = "aggregated_at" -> "now"
          [] k = "price_stats" ->
                [min    |-> Lowest(Column(frame, "current_price")),
                 max    |-> Highest(Column(frame, "current_price")),
                 median |-> median(Column(frame, "current_price")),
                 std    |-> std(Column(frame, "current_price"))]]

\* the statistics of a column of str values raise TypeError
AggregateRaises(frame) ==
    \E c \in {"current_price", "demand"} \cap frame.cols : HasText(frame, c)

\* what aggregate_metrics returns for a frame and the event it logs
Aggregate(frame) ==
    IF AggregateRaises(frame)
    THEN [value |-> [k \in {} |-> None],
          event |-> Event("ERROR", "Failed to aggregate metrics")]
    ELSE [value |-> Metrics(frame),
          event |-> Event("INFO", "Metrics aggregated successfully")]

\* aggregate_metrics(records)
aggregate_metrics ==
    /\ records # None
    /\ returned' = Result("aggregate_metrics", Aggregate(records).value)
    /\ log' = <<Aggregate(records).event>>
    /\ UNCHANGED records

InitPipeline ==
    /\ ModelIdle
    /\ FitIdle
    /\ GenIdle
    /\ LakeIdle
    /\ \/ \E rowset \in RowSets, n \in 0..MaxRecords :
             \E rows \in [1..n -> rowset] : records = DataFrame(Columns(rowset), rows)
       \/ \E rowset \in SchemaRowSets, n \in 0..MaxSchemaRecords :
             \E rows \in [1..n -> rowset] : records = DataFrame(Columns(rowset), rows)
       \/ \E rowset \in FewRowSets, n \in 0..MaxFewRecords :
             \E rows \in [1..n -> rowset] : records = DataFrame(Columns(rowset), rows)
    /\ returned = None
    /\ log = <<>>

NextPipeline ==
    \/ transform_data /\ UNCHANGED <<modelVars, fitVars, genVars, lakeVars>>
    \/ validate_data /\ UNCHANGED <<modelVars, fitVars, genVars, lakeVars>>
    \/ aggregate_metrics /\ UNCHANGED <<modelVars, fitVars, genVars, lakeVars>>

SpecPipeline == InitPipeline /\ [][NextPipeline]_vars

\* ----------------------------------------------------------- the generators
\* A random draw is kept by the stream it comes from (seed and position) and
\* by its distribution; the bounds of a uniform draw are in hundredths.  A
\* date is a day number in a calendar of thirty-day months.
MaxProducts == 2

MaxDays == 2

MaxDraws == 2

\* np.random.seed(42)
Seeded == [seed |-> 42, pos |-> 0]

\* the draw at offset k of the stream, named after the variable it is assigned to
Rand(name, g, k, dist, lo, hi) ==
    [kind |-> "rand", name |-> name, seed |-> g.seed, pos |-> g.pos + k,
     dist |-> dist, lo |-> lo, hi |-> hi]

Times(name, a, b) == [kind |-> "mul", name |-> name, a |-> a, b |-> b]

\* round(x, 2)
Round2(x) == [kind |-> "round2", of |-> x]

\* timestamp.weekday()
Weekday(t) == t.day % 7

\* (timestamp.month - 1) // 3
Season(t) == ((((t.day \div 30) % 12) + 1) - 1) \div 3

\* the moments at which a call is made
Moments == { Timestamp(d, h) : d \in {10, 89}, h \in {23} } \cup
           { Timestamp(d, h) : d \in {11, 90}, h \in {0} }

Later(a, b) == a.day * 24 + a.hour > b.day * 24 + b.hour

SampleColumns ==
    {"product_id", "timestamp", "base_price", "current_price", "demand",
     "competition_price", "time_of_day", "day_of_week", "season"}

\* (mutant) base_price is drawn for every record
BasePricePerDay(product_id, day, days) ==
    Rand("base_price", Seeded, (product_id - 1) * (1 + 3 * days) + 3 * day,
         "uniform", 1000, 20000)

\* base_price = np.random.uniform(10, 200), once per product, before its days
BasePrice(product_id, day, days) ==
    Rand("base_price", Seeded, (product_id - 1) * (1 + 3 * days), "uniform", 1000, 20000)

\* the dict appended for one product and one day
SampleRecord(product_id, day, days, now) ==
    LET at         == (product_id - 1) * (1 + 3 * days) + 1 + 3 * day
        timestamp  == Timestamp(now.day - days + day, now.hour)
        base_price == BasePrice(product_id, day, days)
    IN  [product_id        |-> ProductId(product_id),
         timestamp         |-> timestamp,
         base_price        |-> Round2(base_price),
         current_price     |-> Round2(Times("current_price", base_price,
                                   Rand("", Seeded, at + 2, "uniform", 90, 110))),
         demand            |-> Rand("demand", Seeded, at, "randint", 50, 500),
         competition_price |-> Round2(Times("competition_price", base_price,
                                   Rand("", Seeded, at + 1, "uniform", 85, 115))),
         time_of_day       |-> Num(timestamp.hour),
         day_of_week       |-> Num(Weekday(timestamp)),
         season            |-> Num(Season(timestamp))]

\* pd.DataFrame(data): the records product by product, day by day; no
\* columns for an empty list
SampleData(n_products, days, now) ==
    DataFrame(IF n_products * days = 0 THEN {} ELSE SampleColumns,
              [r \in 1..(n_products * days) |->
                  SampleRecord((r - 1) \div days + 1, (r - 1) % days, days, now)])

\* what a generator call left for its caller
Generated(op, args, value) ==
    [cls |-> "return", op |-> op, raised |-> FALSE, args |-> args, value |-> value]

generate_sample_data(n_products, days) ==
    /\ rng' = [Seeded EXCEPT !.pos = n_products * (1 + 3 * days)]
    /\ returned' = Generated("generate_sample_data", <<n_products, days>>,
                             SampleData(n_products, days, clock))
    /\ first' = IF first = None
                THEN Generated("generate_sample_data", <<n_products, days>>,
                               SampleData(n_products, days, clock))
                ELSE first
    /\ log' = <<Event("INFO", "Generated sample records")>>
    /\ UNCHANGED <<records, clock>>

\* (mutant) the columns stacked with demand and competition_prices exchanged
column_stack_exchanged(columns, i) ==
    [k \in 1..Len(columns) |->
        columns[IF k = 2 THEN 3 ELSE IF k = 3 THEN 2 ELSE k][i]]

\* row i of np.column_stack([...])
column_stack(columns, i) == [k \in 1..Len(columns) |-> columns[k][i]]

\* generate_training_data(n_samples), by value
TrainingValues(n_samples) ==
    LET n                  == n_samples
        base_prices        == [i \in 1..n |->
                                  Rand("base_prices", Seeded, i - 1, "uniform", 1000, 10000)]
        demand             == [i \in 1..n |->
                                  Rand("demand", Seeded, n + i - 1, "randint", 0, 1000)]
        competition_prices == [i \in 1..n |->
                                  Times("competition_prices", base_prices[i],
                                        Rand("", Seeded, 2 * n + i - 1, "uniform", 80, 120))]
        time_of_day        == [i \in 1..n |->
                                  Rand("time_of_day", Seeded, 3 * n + i - 1, "randint", 0, 24)]
        day_of_week        == [i \in 1..n |->
                                  Rand("day_of_week", Seeded, 4 * n + i - 1, "randint", 0, 7)]
        season             == [i \in 1..n |->
                                  Rand("season", Seeded, 5 * n + i - 1, "randint", 0, 4)]
        columns            == <<base_prices, demand, competition_prices,
                                time_of_day, day_of_week, season>>
    IN  [features |-> [i \in 1..n |-> column_stack(columns, i)],
         targets  |-> [i \in 1..n |->
                          [kind |-> "optimal_price",
                           of   |-> <<base_prices[i], demand[i], competition_prices[i],
                                      time_of_day[i]>>,
                           noise |-> Rand("", Seeded, 6 * n + i - 1, "normal", 0, 200)]]]

GenerateTrainingData(n_samples) ==
    /\ rng' = [Seeded EXCEPT !.pos = 7 * n_samples]
    /\ returned' = Generated("generate_training_data", <<n_samples>>,
                             TrainingValues(n_samples))
    /\ log' = <<>>
    /\ UNCHANGED <<records, clock, first>>

\* time passes
Tick ==
    /\ \E t \in Moments : Later(t, clock) /\ clock' = t
    /\ UNCHANGED <<records, returned, log, rng, first>>

\* some other code draws a random number
Draw ==
    /\ rng.pos < MaxDraws
    /\ rng' = [rng EXCEPT !.pos = @ + 1]
    /\ UNCHANGED <<records, returned, log, clock, first>>

InitGenerate ==
    /\ ModelIdle
    /\ FitIdle
    /\ LakeIdle
    /\ records = None
    /\ returned = None
    /\ log = <<>>
    /\ clock \in Moments
    /\ rng = Unseeded
    /\ first = None

NextGenerate ==
    \/ \E n_products \in 0..MaxProducts, days \in 0..MaxDays :
          generate_sample_data(n_products, days) /\ UNCHANGED <<modelVars, fitVars, lakeVars>>
    \/ \E n_samples \in 0..MaxSamples :
          GenerateTrainingData(n_samples) /\ UNCHANGED <<modelVars, fitVars, lakeVars>>
    \/ Tick /\ UNCHANGED <<modelVars, fitVars, lakeVars>>
    \/ Draw /\ UNCHANGED <<modelVars, fitVars, lakeVars>>

SpecGenerate == InitGenerate /\ [][NextGenerate]_vars

\* ------------------------------------------------ ingest_data, run_pipeline
MaxCalls == 2

\* generate_sample_data(n_products=100, days=30)
DefaultProducts == 100

DefaultDays == 30

\* the object storage sink, by the number of objects it holds
DataLake(n) == [cls |-> "DataLake", objects |-> n]

\* upload_data returns True, returns False, or raises
UploadOutcomes == {"stored", "refused", "raises"}

\* what upload_data may do in a call on this pipeline
Uploads == IF data_lake = None THEN {"none"} ELSE UploadOutcomes

\* the frames passed to ingest_data, and a value that is no frame
IngestInputs ==
    { SampleData(n_products, days, clock) :
        n_products \in 0..MaxProducts, days \in 0..MaxDays } \cup {None}

\* (mutant) the records are counted once the upload has returned
CountedAfterUpload(n, outcome) == IF outcome = "raises" THEN 0 ELSE n

\* self.processed_records += len(data), before the upload
Counted(n, outcome) == n

\* (mutant) ingest_data without its try block
IngestReturnUncaught(outcome) ==
    IF outcome = "raises" THEN [raised |-> TRUE, value |-> "Exception"]
    ELSE [raised |-> FALSE, value |-> TRUE]

\* return True; except Exception: return False
IngestReturn(outcome) == [raised |-> FALSE, value |-> outcome # "raises"]

\* ingest_data on a frame of n records: what it returns, counts, logs and
\* leaves in the data lake
Ingest(n, outcome) ==
    [ret     |-> IngestReturn(outcome),
     counted |-> Counted(n, outcome),
     lake    |-> IF outcome = "stored" THEN DataLake(data_lake.objects + 1) ELSE data_lake,
     events  |-> <<Event("INFO", "Ingesting records")>> \o
                 (IF outcome = "raises" THEN <<Event("ERROR", "Failed to ingest data")>>
                  ELSE <<>>)]

\* ingest_data(data): len() of a value that is no frame raises inside the try block
ingest_data(d) ==
    /\ calls < MaxCalls
    /\ calls' = calls + 1
    /\ IF d = None
       THEN /\ returned' = Result("ingest_data", FALSE)
            /\ log' = <<Event("ERROR", "Failed to ingest data")>>
            /\ upload' = "none"
            /\ UNCHANGED <<processed_records, ingested, data_lake>>
       ELSE \E outcome \in Uploads :
               /\ returned' = [cls |-> "return", op |-> "ingest_data"]
                                 @@ Ingest(Len(d.rows), outcome).ret
               /\ processed_records' = processed_records + Ingest(Len(d.rows), outcome).counted
               /\ ingested' = ingested + Len(d.rows)
               /\ data_lake' = Ingest(Len(d.rows), outcome).lake
               /\ log' = Ingest(Len(d.rows), outcome).events
               /\ upload' = outcome
    /\ UNCHANGED <<records, clock, rng, first>>

\* validate_data on the generated sample: the counts that do not depend on the draws
SampleReport(n) ==
    [k \in ReportKeys([cols |-> SampleColumns]) |->
        CASE k = "total_records" -> n
          [] k \in {"duplicate_records", "negative_prices"} -> 0
          [] OTHER -> "computed"]

\* aggregate_metrics on the transformed sample
SampleMetrics(n) ==
    [k \in AggregateKeys([cols |-> SampleColumns \cup {"price_ratio", "demand_level"}]) |->
        CASE k = "total_records" -> n
          [] OTHER -> "computed"]

\* the dict run_pipeline returns
PipelineResults(ing, processed, n) ==
    IF ing.raised
    THEN [k \in {"status", "error", "completed_at"} |->
             IF k = "status" THEN "failed" ELSE "computed"]
    ELSE [k \in {"status", "records_processed", "validation", "metrics", "completed_at"} |->
             CASE k = "status" -> IF ing.value THEN "success" ELSE "partial"
               [] k = "records_processed" -> processed
               [] k = "validation" -> SampleReport(n)
               [] k = "metrics" -> SampleMetrics(n)
               [] OTHER -> "computed"]

\* run_pipeline(): generate the default sample, ingest, validate, transform, aggregate
run_pipeline ==
    /\ calls < MaxCalls
    /\ calls' = calls + 1
    /\ rng' = [Seeded EXCEPT !.pos = DefaultProducts * (1 + 3 * DefaultDays)]
    /\ \E outcome \in Uploads :
          LET n == DefaultProducts * DefaultDays
          IN  /\ processed_records' = processed_records + Ingest(n, outcome).counted
              /\ ingested' = ingested + n
              /\ data_lake' = Ingest(n, outcome).lake
              /\ upload' = outcome
              /\ returned' = Result("run_pipeline",
                                PipelineResults(Ingest(n, outcome).ret,
                                                processed_records + Ingest(n, outcome).counted, n))
              /\ log' = <<Event("INFO", "Starting data pipeline execution"),
                          Event("INFO", "Generated sample records")>>
                        \o Ingest(n, outcome).events
                        \o (IF Ingest(n, outcome).ret.raised
                            THEN <<Event("ERROR", "Pipeline execution failed")>>
                            ELSE <<Event("INFO", "Data validation completed"),
                                   Event("INFO", "Transformed data"),
                                   Event("INFO", "Metrics aggregated successfully"),
                                   Event("INFO", "Data pipeline execution completed")>>)
    /\ UNCHANGED <<records, clock, first>>

InitIngest ==
    /\ ModelIdle
    /\ FitIdle
    /\ records = None
    /\ returned = None
    /\ log = <<>>
    /\ clock \in Moments
    /\ rng = Unseeded
    /\ first = None
    /\ data_lake \in {None, DataLake(0)}
    /\ processed_records = 0
    /\ ingested = 0
    /\ calls = 0
    /\ upload = "none"

NextIngest ==
    \/ \E d \in IngestInputs : ingest_data(d) /\ UNCHANGED <<modelVars, fitVars>>
    \/ run_pipeline /\ UNCHANGED <<modelVars, fitVars>>

SpecIngest == InitIngest /\ [][NextIngest]_vars

\* ================================================================= claims
\* the instance the last call was made on
Self == ret.self

\* ensemble m and scaler s were both constructed and fitted by train() call r
FromRun(m, s, r) ==
    /\ m.cls = "RandomForestRegressor" /\ m.run = r /\ IsFitted(m)
    /\ s.cls = "StandardScaler" /\ s.run = r /\ IsFitted(s)

\* C1: as long as no train() has returned metrics and no load_model() has
\* returned True on an instance, predict and predict_single raise on it for
\* every input, failed train() and load_model() calls notwithstanding.
C1_UntrainedPredictRaises ==
    \A i \in Instances :
        ~succeeded[i] =>
            /\ \A features \in PredictBatches : predict(i, features).raised
            /\ \A args \in SingleInputs : predict_single(i, args).raised
            /\ (ret.op \in {"predict", "predict_single"} /\ Self = i) => ret.raised

\* C1 witness: predict_single has raised on an instance whose failed train()
\* left a fitted scaler and a fitted ensemble behind.
C1_Witness ==
    /\ ret.op = "predict_single" /\ ret.raised
    /\ ~succeeded[Self]
    /\ IsFitted(scaler[Self]) /\ IsFitted(model[Self])

\* C2 (as claimed): a train() call on a trained instance leaves either the
\* ensemble and scaler it found, or the ensemble and scaler of this one run.
C2_RetrainWholesale ==
    [][ (ret'.op = "train" /\ is_trained[ret'.self]) =>
            \/ (model'[ret'.self] = model[ret'.self] /\ scaler'[ret'.self] = scaler[ret'.self])
            \/ (runs' = runs + 1 /\ FromRun(model'[ret'.self], scaler'[ret'.self], runs')) ]_vars

\* C3 (as claimed): a load_model() that returns False leaves model, scaler
\* and is_trained as they were.
C3_LoadAtomic ==
    [][ (ret'.op = "load_model" /\ ret'.value = FALSE) =>
            UNCHANGED <<model, scaler, is_trained>> ]_vars

\* C4: once A.save_model() has written A's artifact to model_path, an
\* instance B whose load_model() returns True on that file is trained and
\* answers every batch and every single input exactly as A does.
C4_RoundTrip ==
    ( /\ ret.op = "load_model" /\ Self = "B" /\ ret.value = TRUE
      /\ is_trained["A"]
      /\ file = Stored(pickle_dump(Artifact("A"))) )
    => /\ is_trained["B"]
       /\ \A features \in PredictBatches : predict("B", features) = predict("A", features)
       /\ \A args \in SingleInputs : predict_single("B", args) = predict_single("A", args)

\* C4 witness: B has loaded what A saved, and A returns prices.
C4_Witness ==
    /\ ret.op = "load_model" /\ Self = "B" /\ ret.value = TRUE
    /\ is_trained["A"]
    /\ file = Stored(pickle_dump(Artifact("A")))
    /\ \E features \in PredictBatches : ~predict("A", features).raised

\* C5: train() raises nothing and returns either exactly the metrics keys
\* or exactly the error key; it returns the metrics only when it has trained.
C5_TrainResultShape ==
    ret.op = "train" =>
        /\ ~ret.raised
        /\ ret.value \in {MetricsKeys, ErrorKeys}
        /\ ret.value = MetricsKeys => is_trained[Self]

\* C5 witness: train() on degenerate data has returned the error result.
C5_Witness ==
    /\ ret.op = "train" /\ ~ret.raised /\ ret.value = ErrorKeys
    /\ ~is_trained[Self]

\* C6 (as claimed): every train() call leaves the instance trained with the
\* ensemble and scaler of this run, and no call makes a trained instance
\* untrained.
C6_TrainAlwaysTrains ==
    [][ /\ ret'.op = "train" =>
              /\ is_trained'[ret'.self]
              /\ FromRun(model'[ret'.self], scaler'[ret'.self], runs')
        /\ \A i \in Instances : is_trained[i] => is_trained'[i] ]_vars

\* C6 (amended): every train() call that returns metrics leaves the instance
\* trained with the ensemble and scaler of this run, a train() call that
\* returns an error leaves is_trained as it was, and no call makes a trained
\* instance untrained.
C6_Lifecycle ==
    [][ /\ (ret'.op = "train" /\ ret'.value = MetricsKeys) =>
              /\ runs' = runs + 1
              /\ is_trained'[ret'.self]
              /\ FromRun(model'[ret'.self], scaler'[ret'.self], runs')
        /\ (ret'.op = "train" /\ ret'.value = ErrorKeys) =>
              is_trained'[ret'.self] = is_trained[ret'.self]
        /\ \A i \in Instances : is_trained[i] => is_trained'[i] ]_vars

\* C6 witness: a second train() has replaced the artifact of a trained instance.
C6_Witness ==
    /\ ret.op = "train" /\ ret.value = MetricsKeys
    /\ runs >= 2
    /\ is_trained[Self] /\ FromRun(model[Self], scaler[Self], runs)

\* C7: save_model() on an untrained instance returns False and leaves the
\* file at model_path and the instance as they were.
C7_UntrainedSaveNoOp ==
    [][ (ret'.op = "save_model" /\ ~is_trained[ret'.self]) =>
            /\ ret'.value = FALSE
            /\ UNCHANGED <<file, model, scaler, is_trained>> ]_vars

\* C7 witness: save_model() was refused on an untrained instance that holds a
\* fitted ensemble and scaler, and no file is at model_path.
C7_Witness ==
    /\ ret.op = "save_model" /\ ret.value = FALSE
    /\ ~is_trained[Self]
    /\ IsFitted(model[Self]) /\ IsFitted(scaler[Self])
    /\ file = Absent

\* the file holds a pickled dict with a fitted ensemble and a fitted scaler
UsableBlob(f) ==
    /\ f.kind = "file"
    /\ LET data == pickle_load(f.bytes)
       IN  /\ ~data.raised
           /\ LET m == GetItem(data.value, "model")
                  sc == GetItem(data.value, "scaler")
              IN  /\ ~m.raised /\ ~sc.raised
                  /\ m.value.cls = "RandomForestRegressor" /\ IsFitted(m.value)
                  /\ sc.value.cls = "StandardScaler" /\ IsFitted(sc.value)

\* C8 (as claimed): load_model() on a file that is absent, unreadable or
\* without a usable ensemble and usable scaling parameters returns False and
\* does not change is_trained.
C8_LoadRejectsInvalid ==
    [][ (ret'.op = "load_model" /\ ~UsableBlob(file)) =>
            /\ ret'.value = FALSE
            /\ is_trained'[ret'.self] = is_trained[ret'.self] ]_vars

\* C9: on an instance that is not trained, get_feature_importance returns
\* the empty mapping and raises nothing.
C9_UntrainedImportanceEmpty ==
    \A i \in Instances :
        ~is_trained[i] =>
            /\ get_feature_importance(i) = [raised |-> FALSE, value |-> <<>>]
            /\ (ret.op = "get_feature_importance" /\ Self = i) =>
                   (~ret.raised /\ ret.value = <<>>)

\* C9 witness: get_feature_importance has returned the empty mapping on an
\* untrained instance that a failed call left holding an ensemble.
C9_Witness ==
    /\ ret.op = "get_feature_importance" /\ ~ret.raised /\ ret.value = <<>>
    /\ ~is_trained[Self]
    /\ model[Self].cls = "RandomForestRegressor"

\* C10 (as claimed): on every trained instance get_feature_importance raises
\* nothing and returns a mapping whose keys are exactly the six feature names.
C10_TrainedImportanceKeys ==
    \A i \in Instances :
        is_trained[i] =>
            /\ ~get_feature_importance(i).raised
            /\ Keys(get_feature_importance(i).value) = Keys([k \in 1..Len(feature_names) |-> <<feature_names[k], k>>])

\* the importance weights are non-negative and add up to one
WeightsSumToOne(w) ==
    /\ \A k \in DOMAIN w : w[k][1] >= 0 /\ w[k][2] > 0
    /\ SumSeq([k \in DOMAIN w |-> w[k][1]]) = w[1][2]

\* C11 (as claimed): whatever data a model was trained on, its feature
\* importance weights are non-negative and sum to 1.
C11_ImportancesSumToOne ==
    learned.cls = "artifact" => WeightsSumToOne(learned.importances)

\* C12: the stored scaling parameters are those fitted on the training split:
\* every data set of the same size with the same training rows, whatever its
\* test rows, gives the same parameters, and the test split is transformed
\* with those very parameters.
C12_NoLeakage ==
    learned.cls = "artifact" =>
        /\ learned.test_scaled_by = learned.scaler
        /\ \A X2 \in [1..Len(train_X) -> FeatureRows] :
              (SplitValues(X2, train_y).X_train = SplitValues(train_X, train_y).X_train)
                  => FittedOn(X2, train_y) = learned.scaler

\* C12 witness: a model was trained, and another data set differs from its
\* data in a test row only, by a value that would move the mean.
C12_Witness ==
    /\ learned.cls = "artifact"
    /\ \E X2 \in [1..Len(train_X) -> FeatureRows] :
          /\ SplitValues(X2, train_y).X_train = SplitValues(train_X, train_y).X_train
          /\ X2 # train_X
          /\ ScalerFit(X2) # ScalerFit(train_X)

\* transform_data has returned from its try block
Transformed ==
    returned.cls = "return" /\ returned.op = "transform_data" /\ ~returned.failed

\* transform_data has returned from its except block
FellBack ==
    returned.cls = "return" /\ returned.op = "transform_data" /\ returned.failed

\* validate_data has returned a report
Validated ==
    returned.cls = "return" /\ returned.op = "validate_data" /\ ~returned.raised

\* C13 (as claimed): transforming the output of transform_data again gives
\* that same output, for every record set.
C13_TransformIdempotent ==
    Transformed => TransformFrame(returned.value) = returned.value

\* C14: no call changes the record set passed in, whether transform_data
\* returns from its try block or from its except block.
C14_InputUnmodified == [][records' = records]_vars

\* C14 witness: transform_data has fallen back after the in-place assignment
\* of the imputed columns had filled a missing value of the record set.
C14_Witness ==
    /\ FellBack
    /\ fillna(drop_duplicates(records)) # drop_duplicates(records)

\* C15 (as claimed): the output of a successful transform_data has no two
\* equal records.
C15_NoDuplicatesInOutput ==
    Transformed =>
        \A i, j \in 1..Len(returned.value.rows) :
            returned.value.rows[i] = returned.value.rows[j] => i = j

\* C16: in the output of a successful transform_data every current_price is
\* a number greater than zero.
C16_PricesPositive ==
    (Transformed /\ "current_price" \in returned.value.cols) =>
        \A i \in 1..Len(returned.value.rows) :
            LET cell == returned.value.rows[i]["current_price"]
            IN  cell.kind = "num" /\ cell.v > 0

\* C16 witness: the input had a record without current_price and a record
\* with a current_price of zero or less, and the output holds a record whose
\* price was imputed.
C16_Witness ==
    /\ Transformed
    /\ "current_price" \in records.cols
    /\ \E i \in 1..Len(records.rows) : records.rows[i]["current_price"] = NaN
    /\ \E i \in 1..Len(records.rows) :
          LET cell == records.rows[i]["current_price"]
          IN  cell.kind = "num" /\ cell.v <= 0
    /\ \E i \in 1..Len(returned.value.rows) :
          \A j \in 1..Len(records.rows) :
              returned.value.rows[i]["current_price"] # records.rows[j]["current_price"]

\* C17 (as claimed): the output of a successful transform_data has no
\* missing value in a numeric field.
C17_NoMissingNumeric ==
    Transformed =>
        \A i \in 1..Len(returned.value.rows) :
            \A c \in numeric_cols(returned.value) : returned.value.rows[i][c] # NaN

\* C18 (as claimed): when a step of transform_data fails, the call raises
\* nothing, returns the record set passed in, unmodified, and the failure is
\* logged as a warning-level event.
C18_FallbackWarns ==
    FellBack =>
        /\ ~returned.raised
        /\ returned.is_data
        /\ returned.value = records
        /\ \E k \in 1..Len(log) : log[k].level = "WARNING"

\* C19 (as claimed): every output record with a demand of zero or more has
\* one of the four demand levels.
C19_DemandLevelAssigned ==
    (Transformed /\ "demand" \in returned.value.cols) =>
        \A i \in 1..Len(returned.value.rows) :
            LET row == returned.value.rows[i]
            IN  (row["demand"].kind = "num" /\ row["demand"].v >= 0) =>
                    \E k \in 1..Len(labels) : row["demand_level"] = Label(labels[k])

\* C20: the report of validate_data counts every record in total_records and
\* in duplicate_records the records equal to an earlier one, so that the
\* duplicates and the distinct records add up to the total.
C20_ValidationCounts ==
    Validated =>
        /\ returned.value["total_records"] = Len(records.rows)
        /\ returned.value["duplicate_records"] =
              Cardinality({ i \in 1..Len(records.rows) :
                              \E j \in 1..(i - 1) : records.rows[j] = records.rows[i] })
        /\ returned.value["duplicate_records"]
              + Cardinality({ records.rows[i] : i \in 1..Len(records.rows) })
              = returned.value["total_records"]

\* C20 witness: a report on a record set in which a record with a missing
\* value occurs twice, next to a different record.
C20_Witness ==
    /\ Validated
    /\ returned.value["duplicate_records"] >= 1
    /\ Cardinality({ records.rows[i] : i \in 1..Len(records.rows) }) >= 2
    /\ \E i, j \in 1..Len(records.rows) :
          /\ i < j
          /\ records.rows[i] = records.rows[j]
          /\ \E c \in records.cols : records.rows[i][c] = NaN

\* aggregate_metrics has returned
Aggregated == returned.cls = "return" /\ returned.op = "aggregate_metrics"

\* no str value where a number is expected
WellTyped(frame) ==
    \A c \in {"current_price", "demand"} \cap frame.cols : ~HasText(frame, c)

\* the number is 0 (0 == 0.0)
IsZero(x) == (x.kind = "num" /\ x.v = 0) \/ (x.kind = "ratio" /\ x.num = 0)

\* what both readings of C21 share: on records of well-typed values neither
\* call raises, validate_data reports negative_prices and demand_outliers
\* exactly when their column is there, and aggregate_metrics reports every
\* statistic that does not depend on a column
DegradesGracefully ==
    /\ (returned.cls = "return" /\ returned.op = "validate_data" /\ WellTyped(records))
          => ~returned.raised
    /\ Validated =>
          /\ "negative_prices" \in DOMAIN returned.value <=> "current_price" \in records.cols
          /\ "demand_outliers" \in DOMAIN returned.value <=> "demand" \in records.cols
    /\ (Aggregated /\ WellTyped(records)) =>
          /\ ~returned.raised
          /\ {"total_products", "avg_price", "avg_demand", "total_records", "date_range"}
                \subseteq DOMAIN returned.value
          /\ returned.value["total_records"] = Len(records.rows)

\* C21 (as claimed): validate_data and aggregate_metrics do not raise for a
\* missing optional column; validate_data omits the two checks exactly when
\* their column is absent, and total_products, avg_price and avg_demand are 0
\* exactly when their column is absent.
C21_ZeroExactlyWhenAbsent ==
    /\ DegradesGracefully
    /\ (Aggregated /\ WellTyped(records)) =>
          /\ IsZero(returned.value["total_products"]) <=> "product_id" \notin records.cols
          /\ IsZero(returned.value["avg_price"]) <=> "current_price" \notin records.cols
          /\ IsZero(returned.value["avg_demand"]) <=> "demand" \notin records.cols

\* C21 (amended): ... and total_products, avg_price and avg_demand are 0
\* whenever their column is absent; a column that is there can give 0 too.
C21_ZeroWhenAbsent ==
    /\ DegradesGracefully
    /\ (Aggregated /\ WellTyped(records)) =>
          /\ "product_id" \notin records.cols => IsZero(returned.value["total_products"])
          /\ "current_price" \notin records.cols => IsZero(returned.value["avg_price"])
          /\ "demand" \notin records.cols => IsZero(returned.value["avg_demand"])

\* C21 witness: metrics of records that have current_price and timestamp but
\* neither product_id nor demand, with a price average that is not 0.
C21_Witness ==
    /\ Aggregated
    /\ records.cols \cap OptionalColumns = {"current_price", "timestamp"}
    /\ Len(records.rows) >= 2
    /\ ~IsZero(returned.value["avg_price"])
    /\ "price_stats" \in DOMAIN returned.value

\* record i of the frame with each missing numeric value replaced by the
\* median of its column over the frame
FilledRecord(d, i) ==
    [c \in d.cols |->
        IF d.rows[i][c] = NaN /\ c \in numeric_cols(d)
        THEN median(Column(d, c)) ELSE d.rows[i][c]]

\* the records of the frame that pass the price filter once they are filled
Kept(d) ==
    { i \in 1..Len(d.rows) :
        "current_price" \in d.cols => GreaterThanZero(FilledRecord(d, i)["current_price"]) }

\* C26: the output of a successful transform_data holds, for the records
\* left after the duplicates are dropped, exactly those whose price is above
\* zero once filled, each filled with the medians taken over all the records
\* left after the duplicates are dropped, those with a price of zero or less
\* included.
C26_StepOrder ==
    Transformed =>
        /\ Len(returned.value.rows) = Cardinality(Kept(drop_duplicates(records)))
        /\ \A i \in Kept(drop_duplicates(records)) :
              \E j \in 1..Len(returned.value.rows) :
                  \A c \in records.cols :
                      returned.value.rows[j][c] = FilledRecord(drop_duplicates(records), i)[c]

\* C26 witness: a missing demand was filled with a median that the
\* duplicates would have changed and that the records with a price of zero,
\* dropped afterwards, did change.
C26_Witness ==
    /\ Transformed
    /\ {"current_price", "demand"} \subseteq records.cols
    /\ \E i \in 1..Len(returned.value.rows) :
          /\ returned.value.rows[i]["demand"] = median(Column(drop_duplicates(records), "demand"))
          /\ returned.value.rows[i]["demand"] # median(Column(records, "demand"))
          /\ returned.value.rows[i]["demand"]
                # median(Column(PriceFilter(drop_duplicates(records)), "demand"))
          /\ \A j \in 1..Len(records.rows) :
                records.rows[j]["demand"] # returned.value.rows[i]["demand"]

\* generate_sample_data has returned
Sampled == returned.cls = "return" /\ returned.op = "generate_sample_data"

\* C22: generate_sample_data(n_products, days) returns n_products * days
\* records, product after product in product order, each product's records
\* with increasing timestamps and one base_price.
C22_SampleShape ==
    Sampled =>
        LET n_products == returned.args[1]
            days       == returned.args[2]
            rows       == returned.value.rows
        IN  /\ Len(rows) = n_products * days
            /\ \A p \in 1..n_products : \A d \in 1..days :
                  rows[(p - 1) * days + d]["product_id"] = ProductId(p)
            /\ \A i, j \in 1..Len(rows) :
                  (i < j /\ rows[i]["product_id"] = rows[j]["product_id"]) =>
                      /\ Later(rows[j]["timestamp"], rows[i]["timestamp"])
                      /\ rows[i]["base_price"] = rows[j]["base_price"]

\* C22 witness: a sample of two products over two days, each product with
\* its own base_price.
C22_Witness ==
    /\ Sampled
    /\ returned.args = <<2, 2>>
    /\ Len(returned.value.rows) = 4
    /\ returned.value.rows[1]["base_price"] # returned.value.rows[3]["base_price"]

\* C23 (as claimed): two generate_sample_data calls with the same arguments
\* return the same records, whenever they are made and whatever random
\* numbers were drawn in between.
C23_SampleDeterministic ==
    (Sampled /\ first # None /\ returned.args = first.args) =>
        returned.value = first.value

\* generate_training_data has returned
Synthesized == returned.cls = "return" /\ returned.op = "generate_training_data"

\* an integer drawn from lo..hi
IntegerWithin(x, lo, hi) ==
    x.kind = "rand" /\ x.dist = "randint" /\ x.lo >= lo /\ x.hi - 1 <= hi

\* C25: generate_training_data(n_samples) returns n_samples rows of the six
\* features base price, demand, competition price, time of day, day of week
\* and season in this order, and n_samples targets; time_of_day is in 0..23,
\* day_of_week in 0..6, season in 0..3 and demand an integer in 0..999.
C25_TrainingDataShape ==
    Synthesized =>
        LET n    == returned.args[1]
            rows == returned.value.features
        IN  /\ Len(rows) = n
            /\ Len(returned.value.targets) = n
            /\ \A i \in 1..n :
                  /\ DOMAIN rows[i] = 1..Len(feature_names)
                  /\ [k \in 1..NFeatures |-> rows[i][k].name] =
                        <<"base_prices", "demand", "competition_prices",
                          "time_of_day", "day_of_week", "season">>
                  /\ IntegerWithin(rows[i][2], 0, 999)
                  /\ IntegerWithin(rows[i][4], 0, 23)
                  /\ IntegerWithin(rows[i][5], 0, 6)
                  /\ IntegerWithin(rows[i][6], 0, 3)

\* C25 witness: a training set of two samples.
C25_Witness ==
    /\ Synthesized
    /\ returned.args = <<2>>
    /\ Len(returned.value.features) = 2
    /\ returned.value.features[1] # returned.value.features[2]

\* run_pipeline has returned
PipelineRan == returned.cls = "return" /\ returned.op = "run_pipeline"

\* C24: ingest_data and run_pipeline raise nothing, and run_pipeline returns
\* the validation results and the metrics, whether the pipeline has no data
\* lake, upload_data returns failure, or upload_data raises.
C24_ToleratesSink ==
    /\ (returned.cls = "return" /\ returned.op = "ingest_data") => ~returned.raised
    /\ PipelineRan =>
          /\ ~returned.raised
          /\ {"validation", "metrics"} \subseteq DOMAIN returned.value
          /\ returned.value["status"] \in {"success", "partial"}
          /\ returned.value["validation"]["total_records"] = DefaultProducts * DefaultDays
          /\ returned.value["metrics"]["total_records"] = DefaultProducts * DefaultDays

\* C24 witness: run_pipeline has returned after upload_data raised.
C24_Witness ==
    /\ PipelineRan
    /\ data_lake # None
    /\ upload = "raises"
    /\ returned.value["status"] = "partial"

\* C30: processed_records starts at 0, never decreases, is the number of
\* records of all frames passed to ingest_data, whatever the upload did, and
\* is what run_pipeline reports as records_processed.
C30_ProcessedCumulative ==
    /\ [](/\ calls = 0 => processed_records = 0
          /\ processed_records = ingested
          /\ PipelineRan => returned.value["records_processed"] = processed_records)
    /\ [][processed_records' >= processed_records]_vars

\* C30 witness: a second run_pipeline on the same pipeline, after a call
\* whose upload raised, reports the records of both.
C30_Witness ==
    /\ PipelineRan
    /\ calls = 2
    /\ upload = "raises"
    /\ returned.value["records_processed"] > DefaultProducts * DefaultDays

C28_TrainedHasArtifact ==
    \A i \in Instances :
        is_trained[i] => (~IsNone(model[i]) /\ ~IsNone(scaler[i]))

\* C28 witness: after two train() calls the instance has loaded the file its
\* save_model wrote, and is trained.
C28_Witness ==
    /\ ret.op = "load_model" /\ ret.value = TRUE
    /\ is_trained[Self]
    /\ file.kind = "file"
    /\ runs = MaxRuns
    /\ ~IsNone(model[Self])

\* C29: a train() call that is given only features or only targets does what
\* a train() call without arguments does: it trains on the synthetic default
\* set, and leaves the same scaler, model, flag and result.  train_X and
\* train_y are the arguments of the call the step makes.
C29_FallbackOnEitherMissing ==
    [][ (ret'.op = "train" /\ (IsNone(train_X') \/ IsNone(train_y')))
            => train("A", None, None) ]_vars

\* C29 witness: train() was given features of five columns and no targets,
\* and has returned the metrics of a model of six features.
C29_Witness ==
    /\ ret.op = "train"
    /\ ~IsNone(train_X) /\ IsNone(train_y)
    /\ train_X.cols = NFeatures - 1
    /\ ret.value = MetricsKeys
    /\ is_trained["A"] /\ model["A"].n_features_in_ = NFeatures
====
